---- MODULE Spec2Model ----
(***************************************************************************)
(* State-machine model of the m6502e-rs instruction core (src/src/cpu.rs). *)
(* One action, emulate_op, executes the instruction at the program         *)
(* counter.  Every helper of cpu.rs is an operator of the same name that   *)
(* takes and returns the system state `sys`.  A Rust panic is an outcome:  *)
(* it is recorded in sys.panic and every later statement of the step is    *)
(* skipped, so the state at the panic keeps the writes made before it.     *)
(***************************************************************************)
EXTENDS Integers, Sequences, FiniteSets, TLC

VARIABLES
    cpu_state,        \* CpuState: a, x, y, pch, pcl and the five flags
    memory,           \* SystemState.memory, stored as its non-zero cells
    opcode,           \* emulate_op's local `opcode` of the last step
    cycles,           \* the value the last emulate_op call returned
    status,           \* "none" while running, else the panic of the last step
    reads,            \* addresses passed to get_byte_at_addr by the last step
    writes,           \* addresses passed to set_byte_at_addr by the last step
    overflow_checks,  \* build profile: does u16 `+` panic on overflow (debug)
    steps,            \* number of emulate_op calls made so far
    test              \* the unit test of bcd_add: its arguments and result

vars == <<cpu_state, memory, opcode, cycles, status, reads, writes,
          overflow_checks, steps, test>>

Byte == 0..255

\* ------------------------------------------------------------------------
\* Bit operations on bytes
\* ------------------------------------------------------------------------
RECURSIVE BitAndN(_, _, _)
BitAndN(a, b, n) ==
    IF n = 0 THEN 0
    ELSE (a % 2) * (b % 2) + 2 * BitAndN(a \div 2, b \div 2, n - 1)

BitAnd(a, b) == BitAndN(a, b, 8)

BitOr(a, b) == a + b - BitAnd(a, b)

\* overflowing_add with the carry missed when the sum is exactly 256
overflowing_add_carry_above_256(a, b) ==
    [val |-> (a + b) % 256, carry |-> a + b > 256]

\* u8::overflowing_add / overflowing_sub: the wrapped value and the carry
overflowing_add(a, b) == [val |-> (a + b) % 256, carry |-> a + b > 255]

overflowing_sub(a, b) == [val |-> (a - b) % 256, carry |-> a < b]

\* ------------------------------------------------------------------------
\* Memory: the array [u8; 0x10000] is kept as the function of its non-zero
\* cells; every other cell holds 0.
\* ------------------------------------------------------------------------
MemRead(mem, addr) == IF addr \in DOMAIN mem THEN mem[addr] ELSE 0

MemWrite(mem, addr, byte) ==
    LET dom == IF byte = 0 THEN DOMAIN mem \ {addr} ELSE DOMAIN mem \cup {addr}
    IN  [c \in dom |-> IF c = addr THEN byte ELSE mem[c]]

Live(sys) == sys.panic = "none"

Panic(sys, msg) == [sys EXCEPT !.panic = msg]

\* `let r = v;` followed by F(r): v is evaluated once and bound to r.
Bind(v, F(_)) == CHOOSE y \in {F(r) : r \in {v}} : TRUE

B2N(b) == IF b THEN 1 ELSE 0

\* -- Helper functions --

get_byte_at_addr(sys, addr) ==
    IF ~Live(sys) THEN [sys |-> sys, val |-> 0]
    ELSE [sys |-> [sys EXCEPT !.reads = Append(@, addr)],
          val |-> MemRead(sys.memory, addr)]

\* set_byte_at_addr spilling the byte into the next cell as well
set_byte_at_addr_and_next(sys, addr, byte) ==
    IF ~Live(sys) THEN sys
    ELSE [sys EXCEPT !.memory = MemWrite(MemWrite(@, addr, byte),
                                         (addr + 1) % 65536, byte),
                     !.writes = Append(@, addr)]

set_byte_at_addr(sys, addr, byte) ==
    IF ~Live(sys) THEN sys
    ELSE [sys EXCEPT !.memory = MemWrite(@, addr, byte),
                     !.writes = Append(@, addr)]

cat_bytes(b1, b2) == b1 * 256 + b2

\* `cat_bytes(pch, pcl) + offset` is a u16 addition: past 0xFFFF it panics in
\* a build with overflow checks and wraps in a build without them.
get_immediate_byte(sys, offset) ==
    LET sum == cat_bytes(sys.cpu_state.pch, sys.cpu_state.pcl) + offset
    IN  IF ~Live(sys) THEN [sys |-> sys, val |-> 0]
        ELSE IF sum > 65535 /\ overflow_checks
        THEN [sys |-> Panic(sys, "attempt to add with overflow"), val |-> 0]
        ELSE get_byte_at_addr(sys, sum % 65536)

get_absolute_addr(sys) ==
    Bind(get_immediate_byte(sys, 1), LAMBDA lo :
    Bind(get_immediate_byte(lo.sys, 2), LAMBDA hi :
        [sys |-> hi.sys, addr |-> cat_bytes(hi.val, lo.val)]))

get_absolute_byte(sys) ==
    Bind(get_absolute_addr(sys), LAMBDA r :
        get_byte_at_addr(r.sys, r.addr))

set_absolute_byte(sys, byte) ==
    Bind(get_absolute_addr(sys), LAMBDA r :
        set_byte_at_addr(r.sys, r.addr, byte))

\* get_absolute_addr_indexed with the carry not added to the high byte
get_absolute_addr_indexed_no_carry(sys, index) ==
    Bind(get_immediate_byte(sys, 1), LAMBDA lo :
    Bind(get_immediate_byte(lo.sys, 2), LAMBDA hi :
    Bind(overflowing_add(lo.val, index), LAMBDA sum :
        IF ~Live(hi.sys) THEN [sys |-> hi.sys, addr |-> 0, carry |-> FALSE]
        ELSE [sys   |-> hi.sys,
              addr  |-> cat_bytes(hi.val, sum.val),
              carry |-> sum.carry])))

get_absolute_addr_indexed(sys, index) ==
    Bind(get_immediate_byte(sys, 1), LAMBDA lo :
    Bind(get_immediate_byte(lo.sys, 2), LAMBDA hi :
    Bind(overflowing_add(lo.val, index), LAMBDA sum :
        IF ~Live(hi.sys) THEN [sys |-> hi.sys, addr |-> 0, carry |-> FALSE]
        ELSE IF sum.carry /\ hi.val = 255
        THEN [sys |-> Panic(hi.sys, "Overflow indexing memory address"),
              addr |-> 0, carry |-> FALSE]
        ELSE [sys   |-> hi.sys,
              addr  |-> cat_bytes(IF sum.carry THEN hi.val + 1 ELSE hi.val, sum.val),
              carry |-> sum.carry])))

\* get_absolute_byte_indexed with the page cross never reported
get_absolute_byte_indexed_no_cross(sys, index) ==
    Bind(get_absolute_addr_indexed(sys, index), LAMBDA r :
    Bind(get_byte_at_addr(r.sys, r.addr), LAMBDA b :
        [sys |-> b.sys, val |-> b.val, carry |-> FALSE]))

get_absolute_byte_indexed(sys, index) ==
    Bind(get_absolute_addr_indexed(sys, index), LAMBDA r :
    Bind(get_byte_at_addr(r.sys, r.addr), LAMBDA b :
        [sys |-> b.sys, val |-> b.val, carry |-> r.carry]))

\* set_absolute_byte_indexed writing at the base address, index forgotten
set_absolute_byte_indexed_no_index(sys, index, byte) ==
    Bind(get_absolute_addr_indexed(sys, 0), LAMBDA r :
        set_byte_at_addr(r.sys, r.addr, byte))

set_absolute_byte_indexed(sys, index, byte) ==
    Bind(get_absolute_addr_indexed(sys, index), LAMBDA r :
        set_byte_at_addr(r.sys, r.addr, byte))

get_zero_page_byte(sys) ==
    Bind(get_immediate_byte(sys, 1), LAMBDA r :
        get_byte_at_addr(r.sys, r.val))

set_zero_page_byte(sys, byte) ==
    Bind(get_immediate_byte(sys, 1), LAMBDA r :
        set_byte_at_addr(r.sys, r.val, byte))

\* get_zero_page_byte_indexed with the index carried into page 1
get_zero_page_byte_indexed_no_wrap(sys, index) ==
    Bind(get_immediate_byte(sys, 1), LAMBDA r :
        get_byte_at_addr(r.sys, r.val + index))

get_zero_page_byte_indexed(sys, index) ==
    Bind(get_immediate_byte(sys, 1), LAMBDA r :
        get_byte_at_addr(r.sys, (r.val + index) % 256))

set_zero_page_byte_indexed(sys, index, byte) ==
    Bind(get_immediate_byte(sys, 1), LAMBDA r :
        set_byte_at_addr(r.sys, (r.val + index) % 256, byte))

\* get_zero_page_byte_indexed_indirect with the pointer's high byte read at
\* addr1 + 1 without the wrap to page zero
get_zero_page_byte_indexed_indirect_no_wrap(sys, index) ==
    Bind(get_immediate_byte(sys, 1), LAMBDA r :
    Bind(get_byte_at_addr(r.sys, (r.val + index) % 256), LAMBDA lo :
    Bind(get_byte_at_addr(lo.sys, ((r.val + index) % 256) + 1), LAMBDA hi :
        get_byte_at_addr(hi.sys, cat_bytes(hi.val, lo.val)))))

get_zero_page_byte_indexed_indirect(sys, index) ==
    Bind(get_immediate_byte(sys, 1), LAMBDA r :
    Bind(get_byte_at_addr(r.sys, (r.val + index) % 256), LAMBDA lo :
    Bind(get_byte_at_addr(lo.sys, (((r.val + index) % 256) + 1) % 256), LAMBDA hi :
        get_byte_at_addr(hi.sys, cat_bytes(hi.val, lo.val)))))

get_zero_page_byte_indirect_indexed(sys, index) ==
    Bind(get_immediate_byte(sys, 1), LAMBDA r :
    Bind(get_byte_at_addr(r.sys, r.val), LAMBDA lo :
    Bind(get_byte_at_addr(lo.sys, (r.val + 1) % 256), LAMBDA hi :
    Bind(overflowing_add(lo.val, index), LAMBDA sum :
        IF ~Live(hi.sys) THEN [sys |-> hi.sys, val |-> 0, carry |-> FALSE]
        ELSE IF sum.carry /\ hi.val = 255
        THEN [sys |-> Panic(hi.sys, "Overflow indexing memory address"),
              val |-> 0, carry |-> FALSE]
        ELSE Bind(get_byte_at_addr(hi.sys,
                      cat_bytes(IF sum.carry THEN hi.val + 1 ELSE hi.val, sum.val)),
                  LAMBDA b : [sys |-> b.sys, val |-> b.val, carry |-> sum.carry])))))

\* pcl is assigned before checked_add can panic, so the panic state keeps it.
increment_pc(sys, num) ==
    LET sum  == overflowing_add(sys.cpu_state.pcl, num)
        low  == [sys EXCEPT !.cpu_state.pcl = sum.val]
    IN  IF ~Live(sys) THEN [sys |-> sys, carry |-> FALSE]
        ELSE IF ~sum.carry THEN [sys |-> low, carry |-> FALSE]
        ELSE IF sys.cpu_state.pch = 255
        THEN [sys |-> Panic(low, "Overflow of program counter"), carry |-> FALSE]
        ELSE [sys |-> [low EXCEPT !.cpu_state.pch = @ + 1], carry |-> TRUE]

decrement_pc(sys, num) ==
    LET dif  == overflowing_sub(sys.cpu_state.pcl, num)
        low  == [sys EXCEPT !.cpu_state.pcl = dif.val]
    IN  IF ~Live(sys) THEN [sys |-> sys, carry |-> FALSE]
        ELSE IF ~dif.carry THEN [sys |-> low, carry |-> FALSE]
        ELSE IF sys.cpu_state.pch = 0
        THEN [sys |-> Panic(low, "Overflow of program counter"), carry |-> FALSE]
        ELSE [sys |-> [low EXCEPT !.cpu_state.pch = @ - 1], carry |-> TRUE]

\* negative_u8 shifting by 6 instead of 7
negative_u8_shift_6(num) == (num \div 64) # 0

negative_u8(num) == (num \div 128) # 0

\* set_n_z clearing the carry flag as well
set_n_z_clears_carry(sys, result) ==
    [sys EXCEPT !.cpu_state.negative = negative_u8(result),
                !.cpu_state.zero     = (result = 0),
                !.cpu_state.carry    = FALSE]

set_n_z(sys, result) ==
    [sys EXCEPT !.cpu_state.negative = negative_u8(result),
                !.cpu_state.zero     = (result = 0)]

\* bcd_add_digit correcting only sums above 10
bcd_add_digit_above_ten(a, b, carry) ==
    LET sum == a + b + B2N(carry)
    IN  IF sum > 10 THEN [val |-> sum - 10, carry |-> TRUE]
        ELSE [val |-> sum, carry |-> FALSE]

bcd_add_digit(a, b, carry) ==
    LET sum == a + b + B2N(carry)
    IN  IF sum > 9 THEN [val |-> sum - 10, carry |-> TRUE]
        ELSE [val |-> sum, carry |-> FALSE]

\* bcd_add with the low digit's carry not passed to the high digit
bcd_add_no_chain(a, b) ==
    Bind(bcd_add_digit(a % 16, b % 16, FALSE), LAMBDA lo :
    Bind(bcd_add_digit(a \div 16, b \div 16, FALSE), LAMBDA hi :
        [val |-> BitOr((hi.val * 16) % 256, lo.val), carry |-> hi.carry]))

bcd_add(a, b) ==
    Bind(bcd_add_digit(a % 16, b % 16, FALSE), LAMBDA lo :
    Bind(bcd_add_digit(a \div 16, b \div 16, lo.carry), LAMBDA hi :
        [val |-> BitOr((hi.val * 16) % 256, lo.val), carry |-> hi.carry]))

Ret(sys, length, cyc) == [sys |-> sys, length |-> length, cycles |-> cyc]

\* branch with the page-cross cycle forgotten
branch_no_page_cross(sys, predicate) ==
    IF predicate
    THEN Bind(get_immediate_byte(sys, 1), LAMBDA d :
         Bind(IF d.val >= 128 THEN decrement_pc(d.sys, d.val % 128)
              ELSE increment_pc(d.sys, d.val % 128), LAMBDA move :
             Ret(move.sys, 0, 3)))
    ELSE Ret(sys, 2, 2)

branch(sys, predicate) ==
    IF predicate
    THEN Bind(get_immediate_byte(sys, 1), LAMBDA d :
         Bind(IF d.val >= 128 THEN decrement_pc(d.sys, d.val % 128)
              ELSE increment_pc(d.sys, d.val % 128), LAMBDA move :
             Ret(move.sys, 0, 3 + B2N(move.carry))))
    ELSE Ret(sys, 2, 2)

\* -- Instructions --

Opd(r, length, cyc) ==
    [sys |-> r.sys, val |-> r.val, length |-> length, cycles |-> cyc]

Unsupported(sys) ==
    [sys |-> Panic(sys, "unsupported mode"), val |-> 0, length |-> 0, cycles |-> 0]

adc(sys, mode) ==
    Bind(CASE mode = "I"     -> Bind(get_immediate_byte(sys, 1),
                                     LAMBDA r : Opd(r, 2, 2))
           [] mode = "A"     -> Bind(get_absolute_byte(sys),
                                     LAMBDA r : Opd(r, 3, 4))
           [] mode = "Zp"    -> Bind(get_zero_page_byte(sys),
                                     LAMBDA r : Opd(r, 2, 3))
           [] mode = "Aix"   -> Bind(get_absolute_byte_indexed(sys, sys.cpu_state.x),
                                     LAMBDA r : Opd(r, 3, 4 + B2N(r.carry)))
           [] mode = "Aiy"   -> Bind(get_absolute_byte_indexed(sys, sys.cpu_state.y),
                                     LAMBDA r : Opd(r, 3, 4 + B2N(r.carry)))
           [] mode = "Zpix"  -> Bind(get_zero_page_byte_indexed(sys, sys.cpu_state.x),
                                     LAMBDA r : Opd(r, 2, 4))
           [] mode = "Zpiix" -> Bind(get_zero_page_byte_indexed_indirect(sys, sys.cpu_state.x),
                                     LAMBDA r : Opd(r, 2, 6))
           [] mode = "Zpiiy" -> Bind(get_zero_page_byte_indirect_indexed(sys, sys.cpu_state.y),
                                     LAMBDA r : Opd(r, 2, 5 + B2N(r.carry)))
           [] OTHER          -> Unsupported(sys),
    LAMBDA o :
    IF ~Live(o.sys) THEN Ret(o.sys, 0, 0)
    ELSE
    Bind(IF o.sys.cpu_state.decimal_mode
         THEN bcd_add(o.sys.cpu_state.a, o.val)
         ELSE overflowing_add(o.sys.cpu_state.a, o.val), LAMBDA s1 :
    Bind(IF o.sys.cpu_state.decimal_mode
         THEN bcd_add(s1.val, B2N(o.sys.cpu_state.carry))
         ELSE overflowing_add(s1.val, B2N(o.sys.cpu_state.carry)), LAMBDA s2 :
        LET negative_before == negative_u8(o.sys.cpu_state.a)
            t1 == [o.sys EXCEPT !.cpu_state.a = s2.val,
                                !.cpu_state.carry = s1.carry \/ s2.carry]
            t2 == set_n_z(t1, s2.val)
            t3 == [t2 EXCEPT !.cpu_state.signed_overflow =
                                 ~negative_before /\ negative_u8(s2.val)]
        IN  Ret(t3, o.length, o.cycles))))

and(sys, mode) ==
    Bind(CASE mode = "I"     -> Bind(get_immediate_byte(sys, 1),
                                     LAMBDA r : Opd(r, 2, 2))
           [] mode = "A"     -> Bind(get_absolute_byte(sys),
                                     LAMBDA r : Opd(r, 3, 4))
           [] mode = "Zp"    -> Bind(get_zero_page_byte(sys),
                                     LAMBDA r : Opd(r, 2, 3))
           [] mode = "Aix"   -> Bind(get_absolute_byte_indexed(sys, sys.cpu_state.x),
                                     LAMBDA r : Opd(r, 3, 4 + B2N(r.carry)))
           [] mode = "Aiy"   -> Bind(get_absolute_byte_indexed(sys, sys.cpu_state.y),
                                     LAMBDA r : Opd(r, 3, 4 + B2N(r.carry)))
           [] mode = "Zpix"  -> Bind(get_zero_page_byte_indexed(sys, sys.cpu_state.x),
                                     LAMBDA r : Opd(r, 2, 4))
           [] mode = "Zpiix" -> Bind(get_zero_page_byte_indexed_indirect(sys, sys.cpu_state.x),
                                     LAMBDA r : Opd(r, 2, 6))
           [] mode = "Zpiiy" -> Bind(get_zero_page_byte_indirect_indexed(sys, sys.cpu_state.y),
                                     LAMBDA r : Opd(r, 2, 5 + B2N(r.carry)))
           [] OTHER          -> Unsupported(sys),
    LAMBDA o :
    IF ~Live(o.sys) THEN Ret(o.sys, 0, 0)
    ELSE
    Bind(BitAnd(o.sys.cpu_state.a, o.val), LAMBDA res :
        Ret(set_n_z([o.sys EXCEPT !.cpu_state.a = res], res),
            o.length, o.cycles)))

asl(sys, mode) ==
    Bind(CASE mode = "Acc"  -> [sys |-> sys, val |-> sys.cpu_state.a,
                                length |-> 1, cycles |-> 2]
           [] mode = "A"    -> Bind(get_absolute_byte(sys),
                                    LAMBDA r : Opd(r, 3, 6))
           [] mode = "Zp"   -> Bind(get_zero_page_byte(sys),
                                    LAMBDA r : Opd(r, 2, 5))
           [] mode = "Aix"  -> Bind(get_absolute_byte_indexed(sys, sys.cpu_state.x),
                                    LAMBDA r : Opd(r, 3, 7))
           [] mode = "Zpix" -> Bind(get_zero_page_byte_indexed(sys, sys.cpu_state.x),
                                    LAMBDA r : Opd(r, 2, 6))
           [] OTHER         -> Unsupported(sys),
    LAMBDA o :
    IF ~Live(o.sys) THEN Ret(o.sys, 0, 0)
    ELSE
    Bind((o.val * 2) % 256, LAMBDA result :
        Ret(CASE mode = "Acc"  -> [o.sys EXCEPT !.cpu_state.a = result]
              [] mode = "A"    -> set_absolute_byte(o.sys, result)
              [] mode = "Zp"   -> set_zero_page_byte(o.sys, result)
              [] mode = "Aix"  -> set_absolute_byte_indexed(o.sys, o.sys.cpu_state.x, result)
              [] mode = "Zpix" -> set_zero_page_byte_indexed(o.sys, o.sys.cpu_state.x, result)
              [] OTHER         -> Panic(o.sys, "unsupported mode"),
            o.length, o.cycles)))

bcc(sys) == branch(sys, ~sys.cpu_state.carry)

bcs(sys) == branch(sys, sys.cpu_state.carry)

beq(sys) == branch(sys, sys.cpu_state.zero)

\* bit accepting the zero-page mode only
bit_zero_page_only(sys, mode) ==
    Bind(CASE mode = "Zp" -> Bind(get_zero_page_byte(sys),
                                  LAMBDA r : Opd(r, 2, 3))
           [] OTHER       -> Unsupported(sys),
    LAMBDA o :
    IF ~Live(o.sys) THEN Ret(o.sys, 0, 0)
    ELSE Ret([o.sys EXCEPT
                !.cpu_state.negative        = negative_u8(o.val),
                !.cpu_state.signed_overflow = (BitAnd(o.val, 64) # 0),
                !.cpu_state.zero            = (BitAnd(o.val, o.sys.cpu_state.a) = 0)],
             o.length, o.cycles))

\* bit with the zero flag taken from the operand alone
bit_zero_of_operand(sys, mode) ==
    Bind(CASE mode = "A"  -> Bind(get_absolute_byte(sys),
                                  LAMBDA r : Opd(r, 3, 4))
           [] mode = "Zp" -> Bind(get_zero_page_byte(sys),
                                  LAMBDA r : Opd(r, 2, 3))
           [] OTHER       -> Unsupported(sys),
    LAMBDA o :
    IF ~Live(o.sys) THEN Ret(o.sys, 0, 0)
    ELSE Ret([o.sys EXCEPT
                !.cpu_state.negative        = negative_u8(o.val),
                !.cpu_state.signed_overflow = (BitAnd(o.val, 64) # 0),
                !.cpu_state.zero            = (o.val = 0)],
             o.length, o.cycles))

bit(sys, mode) ==
    Bind(CASE mode = "A"  -> Bind(get_absolute_byte(sys),
                                  LAMBDA r : Opd(r, 3, 4))
           [] mode = "Zp" -> Bind(get_zero_page_byte(sys),
                                  LAMBDA r : Opd(r, 2, 3))
           [] OTHER       -> Unsupported(sys),
    LAMBDA o :
    IF ~Live(o.sys) THEN Ret(o.sys, 0, 0)
    ELSE Ret([o.sys EXCEPT
                !.cpu_state.negative        = negative_u8(o.val),
                !.cpu_state.signed_overflow = (BitAnd(o.val, 64) # 0),
                !.cpu_state.zero            = (BitAnd(o.val, o.sys.cpu_state.a) = 0)],
             o.length, o.cycles))

bmi(sys) == branch(sys, sys.cpu_state.negative)

bne(sys) == branch(sys, ~sys.cpu_state.zero)

bpl(sys) == branch(sys, ~sys.cpu_state.negative)

\* -- Emulation zone --

\* The match of emulate_op: the executor's (length, cycles) for an opcode.
dispatch(sys, op) ==
    CASE op = 6   -> asl(sys, "Zp")
      [] op = 10  -> asl(sys, "Acc")
      [] op = 14  -> asl(sys, "A")
      [] op = 16  -> bpl(sys)
      [] op = 30  -> asl(sys, "Aix")
      [] op = 22  -> asl(sys, "Zpix")
      [] op = 33  -> and(sys, "Zpiix")
      [] op = 36  -> bit(sys, "Zp")
      [] op = 37  -> and(sys, "Zp")
      [] op = 41  -> and(sys, "I")
      [] op = 44  -> bit(sys, "A")
      [] op = 45  -> and(sys, "A")
      [] op = 48  -> bmi(sys)
      [] op = 49  -> and(sys, "Zpiiy")
      [] op = 53  -> and(sys, "Zpix")
      [] op = 57  -> and(sys, "Aiy")
      [] op = 61  -> and(sys, "Aix")
      [] op = 97  -> adc(sys, "Zpiix")
      [] op = 101 -> adc(sys, "Zp")
      [] op = 105 -> adc(sys, "I")
      [] op = 109 -> adc(sys, "A")
      [] op = 113 -> adc(sys, "Zpiiy")
      [] op = 117 -> adc(sys, "Zpix")
      [] op = 121 -> adc(sys, "Aiy")
      [] op = 125 -> adc(sys, "Aix")
      [] op = 144 -> bcc(sys)
      [] op = 176 -> bcs(sys)
      [] op = 208 -> bne(sys)
      [] op = 240 -> beq(sys)
      [] OTHER    -> Ret(Panic(sys, "unimplemented instruction"), 0, 0)

\* emulate_op stepping over an opcode that is not in the table as if it were
\* a one-byte instruction of 2 cycles
emulate_op_skip_unimplemented(sys) ==
    Bind(get_immediate_byte(sys, 0), LAMBDA f :
    Bind(dispatch(f.sys, f.val), LAMBDA e :
    Bind(IF e.sys.panic = "unimplemented instruction"
         THEN increment_pc([e.sys EXCEPT !.panic = "none"], 1)
         ELSE increment_pc(e.sys, e.length), LAMBDA p :
        [sys |-> p.sys, opcode |-> f.val,
         cycles |-> IF e.sys.panic = "unimplemented instruction"
                    THEN 2 ELSE e.cycles])))

\* One call of emulate_op on the system state: fetch, dispatch, advance.
emulate_op(sys) ==
    Bind(get_immediate_byte(sys, 0), LAMBDA f :
    Bind(dispatch(f.sys, f.val), LAMBDA e :
    Bind(increment_pc(e.sys, e.length), LAMBDA p :
        [sys |-> p.sys, opcode |-> f.val, cycles |-> e.cycles])))

\* ------------------------------------------------------------------------
\* The step action and the initial states
\* ------------------------------------------------------------------------
MaxSteps == 2

SysOf(cs, mem) ==
    [cpu_state |-> cs, memory |-> mem, reads |-> <<>>, writes |-> <<>>,
     panic |-> "none"]

\* The host calls emulate_op on the current state; a panic ends the run.
Step ==
    /\ status = "none"
    /\ steps < MaxSteps
    /\ \E r \in {emulate_op(SysOf(cpu_state, memory))} :
           /\ cpu_state' = r.sys.cpu_state
           /\ memory'    = r.sys.memory
           /\ opcode'    = r.opcode
           /\ cycles'    = IF Live(r.sys) THEN r.cycles ELSE 0
           /\ status'    = r.sys.panic
           /\ reads'     = r.sys.reads
           /\ writes'    = r.sys.writes
    /\ steps' = steps + 1
    /\ UNCHANGED <<overflow_checks, test>>

Next == Step

\* The memory a loader leaves: the bytes of `prog` from address pc on (modulo
\* 65536), the cells of `data` elsewhere, zero in every other cell.
Image(pc, prog, data) ==
    LET at(i)  == (pc + i - 1) % 65536
        code   == {at(i) : i \in 1..Len(prog)}
        val(c) == IF c \in code
                  THEN prog[CHOOSE i \in 1..Len(prog) : at(i) = c]
                  ELSE data[c]
        nz     == {c \in code \cup DOMAIN data : val(c) # 0}
    IN  [c \in nz |-> val(c)]

Flags(n, v, d, z, c) ==
    [negative |-> n, signed_overflow |-> v, decimal_mode |-> d, zero |-> z,
     carry |-> c]

Cpu(a, x, y, pc, f) ==
    [a |-> a, x |-> x, y |-> y, pch |-> pc \div 256, pcl |-> pc % 256,
     negative |-> f.negative, signed_overflow |-> f.signed_overflow,
     decimal_mode |-> f.decimal_mode, zero |-> f.zero, carry |-> f.carry]

NoTest == [a |-> 0, b |-> 0, val |-> 0, carry |-> FALSE, ran |-> FALSE]

\* The state a host hands to the first emulate_op call.
Loaded(cs, mem, oc) ==
    /\ cpu_state = cs
    /\ memory = mem
    /\ opcode = 0
    /\ cycles = 0
    /\ status = "none"
    /\ reads = <<>>
    /\ writes = <<>>
    /\ overflow_checks = oc
    /\ steps = 0
    /\ test = NoTest

PC == cat_bytes(cpu_state.pch, cpu_state.pcl)

NoData == [c \in {} |-> 0]

\* ------------------------------------------------------------------------
\* SpecBranch: the six branch opcodes, every displacement byte
\* ------------------------------------------------------------------------
BranchOpcodes == {16, 48, 144, 176, 208, 240}

BranchPCs == {0, 512, 765, 65534}

InitBranch ==
    \E op \in BranchOpcodes, d \in Byte, pc \in BranchPCs,
       n \in BOOLEAN, z \in BOOLEAN, c \in BOOLEAN, oc \in BOOLEAN :
        Loaded(Cpu(0, 0, 0, pc, Flags(n, FALSE, FALSE, z, c)),
               Image(pc, <<op, d>>, NoData), oc)

SpecBranch == InitBranch /\ [][Next]_vars

\* ------------------------------------------------------------------------
\* What a step is about, read from the state before it
\* ------------------------------------------------------------------------
At(addr) == MemRead(memory, addr % 65536)

Fetched == At(PC)

Operand1 == At(PC + 1)

Operand2 == At(PC + 2)

Stepped == steps' = steps + 1

Returned == status' = "none"

\* The flag test each branch mnemonic stands for
Condition(op, cs) ==
    CASE op = 16  -> ~cs.negative
      [] op = 48  -> cs.negative
      [] op = 144 -> ~cs.carry
      [] op = 176 -> cs.carry
      [] op = 208 -> ~cs.zero
      [] op = 240 -> cs.zero

BranchStep == Stepped /\ Fetched \in BranchOpcodes /\ Returned

\* C1: a branch step that is not taken returns 2 cycles and moves the
\* program counter forward by 2; a taken one returns 3 when the high byte
\* of the program counter is the same after the step and 4 when it changed.
C1_BranchCycles ==
    [][BranchStep =>
        IF ~Condition(Fetched, cpu_state)
        THEN cycles' = 2 /\ PC' = PC + 2
        ELSE IF cpu_state'.pch = cpu_state.pch THEN cycles' = 3
             ELSE cycles' = 4]_vars

\* a taken branch that crossed a page has returned 4 cycles
C1_Witness ==
    /\ steps = 1 /\ status = "none" /\ opcode \in BranchOpcodes
    /\ cycles = 4 /\ cpu_state.pch \in {1, 3}

\* The displacement byte as a two's-complement number
Signed(d) == IF d < 128 THEN d ELSE d - 256

\* C2: after a taken branch the program counter is old_pc + displacement + 2,
\* after a branch that is not taken it is old_pc + 2.
C2_BranchTarget ==
    [][BranchStep =>
        IF Condition(Fetched, cpu_state)
        THEN PC' = (PC + Signed(Operand1) + 2) % 65536
        ELSE PC' = PC + 2]_vars

\* C3: a taken branch moves the program counter back by 256 - d when the top
\* bit of the displacement byte d is set and forward by d when it is clear
\* (the movement is the displacement's, with or without the 2 bytes of the
\* instruction on top).
C3_SignedDisplacement ==
    [][BranchStep /\ Condition(Fetched, cpu_state) =>
        \E len \in {0, 2} : PC' = (PC + Signed(Operand1) + len) % 65536]_vars

\* ------------------------------------------------------------------------
\* Binary-coded decimal
\* ------------------------------------------------------------------------
IsBcd(b) == b % 16 <= 9 /\ b \div 16 <= 9

Dec(b) == 10 * (b \div 16) + (b % 16)

Enc(n) == 16 * (n \div 10) + (n % 10)

BcdBytes == {b \in Byte : IsBcd(b)}

\* ------------------------------------------------------------------------
\* SpecBcd: the unit test of bcd_add, on every pair of bytes
\* ------------------------------------------------------------------------
test_bcd_add ==
    /\ ~test.ran
    /\ \E r \in {bcd_add(test.a, test.b)} :
          test' = [a |-> test.a, b |-> test.b, val |-> r.val,
                   carry |-> r.carry, ran |-> TRUE]
    /\ UNCHANGED <<cpu_state, memory, opcode, cycles, status, reads, writes,
                   overflow_checks, steps>>

InitBcd ==
    /\ cpu_state = Cpu(0, 0, 0, 0, Flags(FALSE, FALSE, FALSE, FALSE, FALSE))
    /\ memory = NoData
    /\ opcode = 0
    /\ cycles = 0
    /\ status = "none"
    /\ reads = <<>>
    /\ writes = <<>>
    /\ overflow_checks \in BOOLEAN
    /\ steps = 0
    /\ \E a \in Byte, b \in Byte :
          test = [a |-> a, b |-> b, val |-> 0, carry |-> FALSE, ran |-> FALSE]

NextBcd == test_bcd_add

SpecBcd == InitBcd /\ [][NextBcd]_vars

\* C5: for bytes a and b made of decimal digits, bcd_add(a, b) is the pair of
\* the BCD encoding of (dec(a) + dec(b)) mod 100, itself made of decimal
\* digits, and the carry dec(a) + dec(b) >= 100.
C5_BcdAdd ==
    (test.ran /\ IsBcd(test.a) /\ IsBcd(test.b)) =>
        /\ IsBcd(test.val)
        /\ test.val = Enc((Dec(test.a) + Dec(test.b)) % 100)
        /\ test.carry = (Dec(test.a) + Dec(test.b) >= 100)

\* bcd_add(0x99, 0x99) has returned (0x98, true)
C5_Witness ==
    /\ test.ran /\ test.a = 153 /\ test.b = 153
    /\ test.val = 152 /\ test.carry

\* ------------------------------------------------------------------------
\* SpecAdcDecimal: ADC in decimal mode on every pair of BCD bytes
\* ------------------------------------------------------------------------
AdcOpcodes == {97, 101, 105, 109, 113, 117, 121, 125}

AdcPCs == {512, 65534}

InitAdcDecimal ==
    \E a \in BcdBytes, m \in BcdBytes, c \in BOOLEAN, pc \in AdcPCs :
        \/ Loaded(Cpu(a, 0, 0, pc, Flags(FALSE, FALSE, TRUE, FALSE, c)),
                  Image(pc, <<105, m>>, NoData), TRUE)
        \/ Loaded(Cpu(a, 0, 0, pc, Flags(FALSE, FALSE, TRUE, FALSE, c)),
                  Image(pc, <<101, 16>>, [k \in {16} |-> m]), TRUE)

SpecAdcDecimal == InitAdcDecimal /\ [][Next]_vars

\* The executor of a non-branch instruction has run to its end: the step
\* returned, or it panicked only in the advance of the program counter.
Executed == status' \in {"none", "Overflow of program counter"}

\* The byte the step read last, as it was before the step
LastOperand == MemRead(memory, reads'[Len(reads')])

\* C4: ADC in decimal mode on BCD bytes A and M with carry-in c leaves the
\* BCD encoding of (dec(A) + dec(M) + c) mod 100 in the accumulator and sets
\* carry iff dec(A) + dec(M) + c >= 100.
C4_AdcDecimal ==
    [][(/\ Stepped /\ Fetched \in AdcOpcodes /\ Executed
        /\ cpu_state.decimal_mode
        /\ IsBcd(cpu_state.a) /\ IsBcd(LastOperand)) =>
        LET total == Dec(cpu_state.a) + Dec(LastOperand) + B2N(cpu_state.carry)
        IN  /\ cpu_state'.a = Enc(total % 100)
            /\ IsBcd(cpu_state'.a)
            /\ cpu_state'.carry = (total >= 100)]_vars

\* decimal ADC #$99 on accumulator 0x99 with carry in has left 0x99 and carry
C4_Witness ==
    /\ steps = 1 /\ opcode = 105 /\ cpu_state.decimal_mode
    /\ reads = <<512, 513>> /\ At(513) = 153
    /\ cpu_state.a = 153 /\ cpu_state.carry /\ status = "none"

\* ------------------------------------------------------------------------
\* Spec: every opcode of the dispatch table on sampled states
\* ------------------------------------------------------------------------
AslOpcodes == {6, 10, 14, 22, 30}

AndOpcodes == {33, 37, 41, 45, 49, 53, 57, 61}

BitOpcodes == {36, 44}

\* 0xEA is not in the dispatch table
OneByteOpcodes == {10, 234}

TwoByteOpcodes ==
    {6, 22, 33, 36, 37, 41, 49, 53, 97, 101, 105, 113, 117} \cup BranchOpcodes

ThreeByteOpcodes == {14, 30, 44, 45, 57, 61, 109, 121, 125}

OperandLo == {5, 255}

OperandHi == {0, 255}

Programs ==
    {<<op>> : op \in OneByteOpcodes}
    \cup {<<op, lo>> : op \in TwoByteOpcodes, lo \in OperandLo}
    \cup {<<op, lo, hi>> : op \in ThreeByteOpcodes, lo \in OperandLo,
                           hi \in OperandHi}

DataVals == {64, 128, 193}

\* The cells the sampled operands can address, all holding the byte v
DataCells(v) ==
    {(lo + k) % 256 : lo \in OperandLo, k \in 0..3}
    \cup {a \in {cat_bytes(hi, lo) + k : hi \in OperandHi, lo \in OperandLo,
                                         k \in 0..2} : a <= 65535}
    \cup {a \in {cat_bytes(v, v) + k : k \in 0..1} : a <= 65535}

Data(v) == [c \in DataCells(v) |-> v]

Accumulators == {0, 65, 255}

IndexPairs == {<<0, 0>>, <<2, 1>>}

PCs == {512, 65534}

Init ==
    \E prog \in Programs, v \in DataVals, a \in Accumulators,
       xy \in IndexPairs, pc \in PCs, oc \in BOOLEAN,
       n \in BOOLEAN, o \in BOOLEAN, d \in BOOLEAN, z \in BOOLEAN,
       c \in BOOLEAN :
        Loaded(Cpu(a, xy[1], xy[2], pc, Flags(n, o, d, z, c)),
               Image(pc, prog, Data(v)), oc)

Spec == Init /\ [][Next]_vars

\* The byte an ADC, AND or ASL step produced
ResultByte ==
    IF Fetched \in AdcOpcodes \cup AndOpcodes \/ Fetched = 10
    THEN cpu_state'.a
    ELSE MemRead(memory', writes'[1])

\* C6: after a step that executes ADC, AND or ASL, negative is bit 7 of the
\* instruction's result byte and zero is (result byte = 0).
C6_FlagsFollowResult ==
    [][(/\ Stepped /\ Executed
        /\ Fetched \in AdcOpcodes \cup AndOpcodes \cup AslOpcodes) =>
        /\ cpu_state'.negative = (ResultByte >= 128)
        /\ cpu_state'.zero = (ResultByte = 0)]_vars

\* The memory operand of BIT, from the bytes after the opcode
BitOperand ==
    IF Fetched = 36 THEN At(Operand1) ELSE At(cat_bytes(Operand2, Operand1))

\* C7: BIT leaves the accumulator unchanged, sets negative to bit 7 and
\* overflow to bit 6 of the memory operand, and zero to
\* ((operand AND accumulator) = 0).
C7_Bit ==
    [][(Stepped /\ Executed /\ Fetched \in BitOpcodes) =>
        /\ cpu_state'.a = cpu_state.a
        /\ cpu_state'.negative = (BitOperand >= 128)
        /\ cpu_state'.signed_overflow = ((BitOperand \div 64) % 2 = 1)
        /\ cpu_state'.zero = (BitAnd(BitOperand, cpu_state.a) = 0)]_vars

\* BIT $05 on operand 0xC1 has set negative and overflow and cleared zero
\* with accumulator 0x41
C7_Witness ==
    /\ steps = 1 /\ opcode = 36 /\ status = "none"
    /\ reads = <<512, 513, 5>> /\ At(5) = 193
    /\ cpu_state.a = 65
    /\ cpu_state.negative /\ cpu_state.signed_overflow /\ ~cpu_state.zero

\* ------------------------------------------------------------------------
\* SpecZeroPage: the zero-page indexed and indirect modes, every operand byte
\* ------------------------------------------------------------------------
ZpxOpcodes == {117, 53, 22}

IzxOpcodes == {97, 33}

IzyOpcodes == {113, 49}

ZpIndexes == {0, 1, 2, 128, 255}

\* Page zero filled with bytes that differ from cell to cell
ZeroPageData == [c \in 0..255 |-> (7 * c + 3) % 256]

InitZeroPage ==
    \E op \in ZpxOpcodes \cup IzxOpcodes \cup IzyOpcodes, b \in Byte,
       x \in ZpIndexes, y \in {0, 1} :
        Loaded(Cpu(255, x, y, 512, Flags(FALSE, FALSE, FALSE, FALSE, FALSE)),
               Image(512, <<op, b>>, ZeroPageData), TRUE)

SpecZeroPage == InitZeroPage /\ [][Next]_vars

\* C8: Zero Page,X reads (and ASL writes) the address (b + X) mod 256 for
\* operand byte b, in page zero.
C8_ZeroPageX ==
    [][(Stepped /\ Executed /\ Fetched \in ZpxOpcodes) =>
        LET ea == (Operand1 + cpu_state.x) % 256
        IN  IF Fetched = 22
            THEN /\ reads' = <<PC, PC + 1, ea, PC + 1>>
                 /\ writes' = <<ea>>
            ELSE /\ reads' = <<PC, PC + 1, ea>>
                 /\ writes' = <<>>]_vars

\* ADC $FF,X with X = 2 has read its operand at address 0x01
C8_Witness ==
    /\ steps = 1 /\ opcode = 117 /\ status = "none"
    /\ cpu_state.x = 2 /\ At(513) = 255
    /\ reads = <<512, 513, 1>>

\* C9: both indirect modes read the pointer's low byte at p and its high
\* byte at (p + 1) mod 256, p = (operand + X) mod 256 for (Zero Page,X) and
\* p = operand for (Zero Page),Y, and the operand at the address the two
\* bytes form (plus Y for (Zero Page),Y).
C9_IndirectPointer ==
    [][(Stepped /\ Fetched \in IzxOpcodes \cup IzyOpcodes) =>
        LET p   == IF Fetched \in IzxOpcodes
                   THEN (Operand1 + cpu_state.x) % 256 ELSE Operand1
            idx == IF Fetched \in IzxOpcodes THEN 0 ELSE cpu_state.y
            ptr == cat_bytes(At((p + 1) % 256), At(p))
        IN  /\ Len(reads') >= 4
            /\ reads'[3] = p
            /\ reads'[4] = (p + 1) % 256
            /\ Executed => reads' = <<PC, PC + 1, p, (p + 1) % 256, ptr + idx>>]_vars

\* ADC ($FF),Y has read the pointer's high byte at address 0x00
C9_Witness ==
    /\ steps = 1 /\ opcode = 113 /\ status = "none"
    /\ At(513) = 255
    /\ Len(reads) = 5 /\ reads[3] = 255 /\ reads[4] = 0
    /\ reads[5] = cat_bytes(At(0), At(255)) + cpu_state.y

\* ------------------------------------------------------------------------
\* SpecIndexed: Absolute,X and Absolute,Y on every low byte of the base
\* ------------------------------------------------------------------------
AbxOpcodes == {125, 61, 30}

AbyOpcodes == {121, 57}

BaseHi == {0, 18, 254, 255}

Indexes == {0, 1, 128, 255}

InitIndexed ==
    \E op \in AbxOpcodes \cup AbyOpcodes, lo \in Byte, hi \in BaseHi,
       x \in Indexes, y \in Indexes :
        Loaded(Cpu(1, x, y, 512, Flags(FALSE, FALSE, FALSE, FALSE, FALSE)),
               Image(512, <<op, lo, hi>>, NoData), TRUE)

SpecIndexed == InitIndexed /\ [][Next]_vars

\* C10: Absolute,X / Absolute,Y read the operand at base + index, base being
\* the two bytes after the opcode (low byte first), and ADC and AND report a
\* page cross (one more cycle than 4) iff low byte + index > 255.
C10_AbsoluteIndexed ==
    [][(Stepped /\ Executed /\ Fetched \in AbxOpcodes \cup AbyOpcodes) =>
        LET base == cat_bytes(Operand2, Operand1)
            idx  == IF Fetched \in AbxOpcodes THEN cpu_state.x ELSE cpu_state.y
        IN  /\ Len(reads') >= 4
            /\ reads'[4] = base + idx
            /\ (Fetched # 30 /\ Returned) =>
                  cycles' = 4 + B2N(Operand1 + idx > 255)]_vars

\* ADC $00FF,X with X = 1 has read address 0x0100 and returned 5 cycles
C10_Witness ==
    /\ steps = 1 /\ opcode = 125 /\ status = "none"
    /\ cpu_state.x = 1 /\ At(513) = 255 /\ At(514) = 0
    /\ reads = <<512, 513, 514, 256>>
    /\ cycles = 5

\* ------------------------------------------------------------------------
\* SpecPageCross: the seven opcodes whose address takes an index with a
\* carry into the high byte, on every low byte of the base address
\* ------------------------------------------------------------------------
IndexedOpcodes == AbxOpcodes \cup AbyOpcodes \cup IzyOpcodes

\* The zero-page cell the (Zero Page),Y programs keep their pointer in
PointerCell == 16

Pointer(lo, hi) == [c \in {PointerCell, PointerCell + 1} |->
                       IF c = PointerCell THEN lo ELSE hi]

InitPageCross ==
    \E op \in IndexedOpcodes, lo \in Byte, hi \in BaseHi, i \in Indexes :
        Loaded(Cpu(1, i, i, 512, Flags(FALSE, FALSE, FALSE, FALSE, FALSE)),
               IF op \in IzyOpcodes
               THEN Image(512, <<op, PointerCell>>, Pointer(lo, hi))
               ELSE Image(512, <<op, lo, hi>>, NoData),
               TRUE)

SpecPageCross == InitPageCross /\ [][Next]_vars

\* The base address the index is added to, and the index register used
IndexBase ==
    IF Fetched \in IzyOpcodes
    THEN cat_bytes(At((Operand1 + 1) % 256), At(Operand1))
    ELSE cat_bytes(Operand2, Operand1)

IndexUsed == IF Fetched \in AbxOpcodes THEN cpu_state.x ELSE cpu_state.y

\* The position, among the step's reads, of the read at the effective address
OperandSlot == IF Fetched \in IzyOpcodes THEN 5 ELSE 4

\* C11: for Absolute,X, Absolute,Y and (Zero Page),Y, when the base address
\* has high byte 0xFF and the index carries out of the low byte, the step
\* returns normally and reads its operand at (base + index) mod 65536.
C11_IndexedWraps ==
    [][(/\ Stepped /\ Fetched \in IndexedOpcodes
        /\ IndexBase \div 256 = 255
        /\ (IndexBase % 256) + IndexUsed > 255) =>
        /\ Returned
        /\ Len(reads') >= OperandSlot
        /\ reads'[OperandSlot] = (IndexBase + IndexUsed) % 65536]_vars

\* ------------------------------------------------------------------------
\* The dispatch table as a whole
\* ------------------------------------------------------------------------
ImplementedOpcodes ==
    AslOpcodes \cup AndOpcodes \cup BitOpcodes \cup AdcOpcodes
    \cup BranchOpcodes

\* The length an executor returns for its opcode (a branch: when not taken)
InstrLength(op) ==
    IF op = 10 THEN 1 ELSE IF op \in ThreeByteOpcodes THEN 3 ELSE 2

TakenBranch == Fetched \in BranchOpcodes /\ Condition(Fetched, cpu_state)

\* C12: a step on an implemented opcode never aborts in program-counter
\* arithmetic (neither in the advance or the branch movement nor in the
\* fetch of the bytes at pc+1 and pc+2), and a step other than a taken branch
\* leaves the counter at (pc + instruction length) mod 65536 with memory
\* changed by nothing but the instruction's own write.
C12_ProgramCounterModular ==
    [][(Stepped /\ Fetched \in ImplementedOpcodes) =>
        /\ status' \notin {"Overflow of program counter",
                           "attempt to add with overflow"}
        /\ (Returned /\ ~TakenBranch) =>
               PC' = (PC + InstrLength(Fetched)) % 65536]_vars

\* ------------------------------------------------------------------------
\* SpecDispatch: every opcode byte 0..255 at the program counter
\* ------------------------------------------------------------------------
InitDispatch ==
    \E op \in Byte, lo \in OperandLo, hi \in OperandHi, a \in Accumulators,
       xy \in IndexPairs, pc \in PCs, oc \in BOOLEAN,
       n \in BOOLEAN, c \in BOOLEAN :
        Loaded(Cpu(a, xy[1], xy[2], pc, Flags(n, FALSE, FALSE, ~n, c)),
               Image(pc, <<op, lo, hi>>, Data(193)), oc)

SpecDispatch == InitDispatch /\ [][Next]_vars

\* C13: a step on a byte that is not one of the 29 opcodes of the dispatch
\* table ends in the unimplemented-instruction outcome, and in no other,
\* with every register, flag, program-counter byte and memory byte as before
\* the step.
C13_Unimplemented ==
    [][(Stepped /\ Fetched \notin ImplementedOpcodes) =>
        /\ status' = "unimplemented instruction"
        /\ cpu_state' = cpu_state
        /\ memory' = memory
        /\ writes' = <<>>]_vars

\* the byte 0xEA at 0x0200 has ended the step as unimplemented, the program
\* counter still at 0x0200
C13_Witness ==
    /\ steps = 1 /\ opcode = 234 /\ status = "unimplemented instruction"
    /\ PC = 512 /\ At(512) = 234 /\ cpu_state.a = 65

\* ------------------------------------------------------------------------
\* SpecAdcBinary: ADC with the decimal flag clear on every pair of bytes
\* ------------------------------------------------------------------------
InitAdcBinary ==
    \E a \in Byte, m \in Byte, c \in BOOLEAN :
        Loaded(Cpu(a, 0, 0, 512, Flags(FALSE, FALSE, FALSE, FALSE, c)),
               Image(512, <<105, m>>, NoData), TRUE)

SpecAdcBinary == InitAdcBinary /\ [][Next]_vars

\* C14: ADC with the decimal flag clear, on accumulator A, operand M and
\* carry-in c, leaves (A + M + c) mod 256 in the accumulator and sets carry
\* iff A + M + c > 255.
C14_AdcBinary ==
    [][(/\ Stepped /\ Fetched \in AdcOpcodes /\ Executed
        /\ ~cpu_state.decimal_mode) =>
        LET total == cpu_state.a + LastOperand + B2N(cpu_state.carry)
        IN  /\ cpu_state'.a = total % 256
            /\ cpu_state'.carry = (total > 255)]_vars

\* ADC #$FF has left 0x00 and carry: the sum was exactly 256
C14_Witness ==
    /\ steps = 1 /\ opcode = 105 /\ status = "none"
    /\ ~cpu_state.decimal_mode /\ At(513) = 255
    /\ cpu_state.a = 0 /\ cpu_state.carry /\ cpu_state.zero

\* C15: after every ADC, in binary or decimal mode and in any addressing
\* mode, overflow is set iff the new accumulator has bit 7 set and the old
\* accumulator had bit 7 clear, whatever the operand and the old overflow.
C15_AdcOverflow ==
    [][(Stepped /\ Fetched \in AdcOpcodes /\ Executed) =>
        cpu_state'.signed_overflow =
            (cpu_state'.a >= 128 /\ cpu_state.a < 128)]_vars

\* ADC #$FF on accumulator 0x00 with carry clear has left 0xFF and set
\* overflow
C15_Witness ==
    /\ steps = 1 /\ opcode = 105 /\ status = "none"
    /\ At(513) = 255 /\ ~cpu_state.decimal_mode
    /\ cpu_state.a = 255 /\ ~cpu_state.carry
    /\ cpu_state.signed_overflow /\ cpu_state.negative

\* The effective address of a memory-mode ASL, from the bytes after the
\* opcode and the X register
AslAddress ==
    CASE Fetched = 6  -> Operand1
      [] Fetched = 22 -> (Operand1 + cpu_state.x) % 256
      [] Fetched = 14 -> cat_bytes(Operand2, Operand1)
      [] Fetched = 30 -> cat_bytes(Operand2, Operand1) + cpu_state.x

\* C16: ASL replaces the value v at the addressed location by (2 * v) mod
\* 256: in accumulator mode the accumulator, with no memory byte changed; in
\* the memory modes the byte at the effective address, which is the address
\* read and the only one written, with the accumulator unchanged.
C16_AslWriteBack ==
    [][(Stepped /\ Executed /\ Fetched \in AslOpcodes) =>
        IF Fetched = 10
        THEN /\ cpu_state'.a = (2 * cpu_state.a) % 256
             /\ memory' = memory
             /\ writes' = <<>>
        ELSE /\ cpu_state'.a = cpu_state.a
             /\ \E k \in 3..4 : k <= Len(reads') /\ reads'[k] = AslAddress
             /\ writes' = <<AslAddress>>
             /\ memory' = MemWrite(memory, AslAddress,
                                   (2 * At(AslAddress)) % 256)]_vars

\* ASL $0005,X with X = 2 has replaced the 0xC1 at address 0x0007 by 0x82
C16_Witness ==
    /\ steps = 1 /\ opcode = 30 /\ status = "none"
    /\ cpu_state.x = 2 /\ At(513) = 5 /\ At(514) = 0
    /\ writes = <<7>> /\ At(7) = 130 /\ At(6) = 193

\* The index addition carries out of the low byte of the base address
Crossed == (IndexBase % 256) + IndexUsed > 255

\* The count emulate_op returns for the same instruction in the same state
\* when the index registers hold 0, so that no page is crossed
NoCrossCycles ==
    emulate_op(SysOf([cpu_state EXCEPT !.x = 0, !.y = 0], memory)).cycles

\* C17: for ADC 0x7D/0x79/0x71, AND 0x3D/0x39/0x31 and ASL 0x1E, the cycle
\* count a step returns is the count of the same opcode without a page cross,
\* plus one exactly when the index addition crosses a page.
C17_PageCrossCycle ==
    [][(Stepped /\ Returned /\ Fetched \in IndexedOpcodes) =>
        cycles' = NoCrossCycles + B2N(Crossed)]_vars

\* C17 as amended: for ADC 0x7D/0x79/0x71 and AND 0x3D/0x39/0x31 the count
\* returned is the count without a page cross plus one exactly when the index
\* addition crosses a page; ASL 0x1E returns 7 cycles with or without a
\* page cross.
C17_PageCrossCycleAmended ==
    [][(Stepped /\ Returned /\ Fetched \in IndexedOpcodes) =>
        IF Fetched = 30
        THEN cycles' = 7 /\ NoCrossCycles = 7
        ELSE cycles' = NoCrossCycles + B2N(Crossed)]_vars

\* ADC ($10),Y with the pointer at 0x12FF and Y = 1 has read 0x1300 and
\* returned 6 cycles
C17_Witness ==
    /\ steps = 1 /\ opcode = 113 /\ status = "none"
    /\ cpu_state.y = 1 /\ At(PointerCell) = 255 /\ At(PointerCell + 1) = 18
    /\ reads = <<512, 513, PointerCell, PointerCell + 1, 4864>>
    /\ cycles = 6

\* C18: across any step, carry changes only if the instruction is ADC and
\* overflow only if it is ADC or BIT; AND changes nothing but the accumulator
\* (to accumulator AND operand), negative, zero and the program counter; a
\* branch changes nothing but the program counter.
C18_FlagFrames ==
    [][Stepped =>
        /\ cpu_state'.carry # cpu_state.carry => Fetched \in AdcOpcodes
        /\ cpu_state'.signed_overflow # cpu_state.signed_overflow =>
               Fetched \in AdcOpcodes \cup BitOpcodes
        /\ Fetched \in AndOpcodes =>
               /\ memory' = memory
               /\ [cpu_state' EXCEPT !.a = 0, !.negative = FALSE,
                                      !.zero = FALSE, !.pch = 0, !.pcl = 0]
                  = [cpu_state EXCEPT !.a = 0, !.negative = FALSE,
                                      !.zero = FALSE, !.pch = 0, !.pcl = 0]
               /\ Executed =>
                      cpu_state'.a = BitAnd(cpu_state.a, LastOperand)
        /\ Fetched \in BranchOpcodes =>
               /\ memory' = memory
               /\ [cpu_state' EXCEPT !.pch = 0, !.pcl = 0]
                  = [cpu_state EXCEPT !.pch = 0, !.pcl = 0]]_vars

\* AND #$05 has left 0x05 in the accumulator with carry, overflow and the
\* decimal flag still set
C18_Witness ==
    /\ steps = 1 /\ opcode = 41 /\ status = "none"
    /\ At(513) = 5 /\ cpu_state.a = 5
    /\ cpu_state.carry /\ cpu_state.signed_overflow
    /\ cpu_state.decimal_mode /\ ~cpu_state.zero /\ ~cpu_state.negative

\* ------------------------------------------------------------------------
\* SpecSequence: programs of three instructions run one after the other
\* ------------------------------------------------------------------------
MemoryAslOpcodes == AslOpcodes \ {10}

\* One instruction per executor and addressing family, and the byte 0xEA
Instructions ==
    {<<6, 16>>, <<10>>, <<14, 16, 1>>, <<22, 16>>, <<30, 16, 1>>,
     <<105, 1>>, <<37, 16>>, <<36, 16>>, <<113, 16>>, <<144, 2>>, <<234>>}

SequenceData == [c \in (16..19) \cup (272..275) |-> 193]

InitSequence ==
    \E i1 \in Instructions, i2 \in Instructions, i3 \in Instructions,
       xy \in IndexPairs, d \in BOOLEAN, c \in BOOLEAN :
        Loaded(Cpu(65, xy[1], xy[2], 512, Flags(FALSE, FALSE, d, FALSE, c)),
               Image(512, i1 \o i2 \o i3, SequenceData), TRUE)

SpecSequence == InitSequence /\ [][Next]_vars

\* The cells whose byte the step changed
ChangedCells ==
    {c \in DOMAIN memory \cup DOMAIN memory' :
        MemRead(memory, c) # MemRead(memory', c)}

\* C19: every step of a sequence keeps X, Y and the decimal flag, and changes
\* memory only when its opcode is a memory-mode ASL (0x06, 0x0E, 0x16, 0x1E),
\* and then in at most one byte; so X, Y and the decimal flag keep their
\* initial values, and memory its initial contents as long as no such opcode
\* has run.
C19_SequenceFrame ==
    [][Stepped =>
        /\ cpu_state'.x = cpu_state.x
        /\ cpu_state'.y = cpu_state.y
        /\ cpu_state'.decimal_mode = cpu_state.decimal_mode
        /\ memory' # memory =>
               /\ Fetched \in MemoryAslOpcodes
               /\ Cardinality(ChangedCells) <= 1]_vars

\* ASL $10 has run twice: the 0xC1 at address 0x10 is now 0x04, its
\* neighbour at 0x11 still 0xC1
C19_Witness ==
    /\ steps = 2 /\ opcode = 6 /\ status = "none" /\ PC = 516
    /\ writes = <<16>> /\ At(16) = 4 /\ At(17) = 193
    /\ cpu_state.x = 2 /\ cpu_state.y = 1 /\ cpu_state.decimal_mode

\* C20: for every opcode byte, no step ends in the unsupported-mode abort of
\* adc, and, asl or bit: each opcode of the table goes to an executor that
\* accepts its addressing mode, and the unimplemented-instruction abort
\* happens on no opcode of the table.
C20_DispatchSafe ==
    [][Stepped =>
        /\ status' # "unsupported mode"
        /\ status' = "unimplemented instruction" =>
               Fetched \notin ImplementedOpcodes]_vars

\* BIT with an absolute address (0x2C) has been dispatched and has returned
\* its 4 cycles
C20_Witness ==
    /\ steps = 1 /\ opcode = 44 /\ status = "none" /\ cycles = 4
    /\ PC = 515 /\ Len(reads) = 4
    /\ reads[4] = cat_bytes(At(514), At(513))

====
